---- MODULE Spec2Model ----
(***************************************************************************)
(* Four-level page-table manager of threads/mmu.c (walker, lifecycle,      *)
(* mapping operations) over an arena of physical frames.                   *)
(*                                                                         *)
(* Addresses are kept in page units: a physical address is a frame number, *)
(* a kernel pointer is ptov of it, a user virtual address is its four      *)
(* table indices plus a page offset.  A page-table entry is its frame      *)
(* address field plus its set of flag bits.                                *)
(***************************************************************************)
EXTENDS Integers, Sequences, FiniteSets, TLC

(* mem    contents of every frame that can hold a page table              *)
(* used   frames currently allocated (both pools and the kernel template)  *)
(* roots  roots returned by pml4_create and not yet destroyed              *)
(* cr3    physical address of the active translation root                  *)
(* owner  history: the root each kernel-pool frame was allocated for       *)
(* last   history: the last operation, its arguments, its result, and the  *)
(*        frames it allocated, freed and the pages it invalidated          *)
(* nops   number of operations performed                                   *)
(* ctx    the execution contexts that run operations step by step: for     *)
(*        each its root, its program, the operation it is in and the local *)
(*        variables of that operation                                      *)
(* tlb    the translations the processor has cached: page and frame        *)
(* curr   the running thread (thread_current ()): its descriptor table,    *)
(*        exit code and whether it still runs                              *)
VARIABLES mem, used, roots, cr3, owner, last, nops, ctx, tlb, curr

vars == <<mem, used, roots, cr3, owner, last, nops, ctx, tlb, curr>>

(* ------------------------------ bounds --------------------------------- *)

\* entries of a thread's descriptor table, scaled down
MAX_FILEDES_ENTRY == 5

\* entries per table page (PGSIZE / sizeof (uint64_t *)), scaled down
NEntries == 2
\* bytes per page (PGSIZE), scaled down
NOffsets == 2
\* frames of the kernel pool that page-table pages are taken from
NKernelFrames == 8
\* address spaces alive at the same time
MaxRoots == 2
\* operations in one run
MaxOps == 4

Index == 0 .. (NEntries - 1)

NULL == 0

(* ------------------------- pte.h / vaddr.h ----------------------------- *)

KERN_BASE == 4194304

ptov(pa) == pa + KERN_BASE

vtop(kva) == kva - KERN_BASE

PTE_FLAGS == {"P", "W", "U", "A", "D"}

\* frame-address bits an entry keeps under a 32-bit mask: bits 12..31
Low32Frames == 2 ^ 20

ZeroEntry == [addr |-> 0, fl |-> {}]

ZeroPage == [i \in Index |-> ZeroEntry]

PTE_ADDR(e) == e.addr

PML4(va) == va.l4

PDPE(va) == va.l3

PDX(va) == va.l2

PTX(va) == va.l1

pg_ofs(va) == va.ofs

\* top-level slot of the kernel's mappings: "if PML4 (vaddr) >= 1, it's
\* kernel space by define"
KernSlot == 1

is_user_vaddr(va) == PML4(va) < KernSlot

VAddr == [l4 : Index, l3 : Index, l2 : Index, l1 : Index, ofs : 0 .. (NOffsets - 1)]

PageOf(va) == [va EXCEPT !.ofs = 0]

(* ------------------------------ frames --------------------------------- *)

\* frames of the permanent kernel template: root, directory-pointer table,
\* directory, table, and the kernel page they map
BaseFrames == 1 .. 5

base_pml4 == ptov(1)

KPool == 6 .. (5 + NKernelFrames)

\* user-pool frames; the last one lies above 4 GiB
UPool == {16, Low32Frames + 16}

TableFrames == (1 .. 4) \cup KPool

BaseMem ==
  [f \in TableFrames |->
     CASE f = 1 -> [i \in Index |-> IF i = KernSlot THEN [addr |-> 2, fl |-> {"P", "W"}] ELSE ZeroEntry]
       [] f = 2 -> [i \in Index |-> IF i = 0 THEN [addr |-> 3, fl |-> {"P", "W"}] ELSE ZeroEntry]
       [] f = 3 -> [i \in Index |-> IF i = 1 THEN [addr |-> 4, fl |-> {"P", "W"}] ELSE ZeroEntry]
       [] f = 4 -> [i \in Index |-> IF i = 0 THEN [addr |-> 5, fl |-> {"P", "W"}] ELSE ZeroEntry]
       [] OTHER -> ZeroPage]

Min(S) == CHOOSE x \in S : \A y \in S : x <= y

(* --------------------------- frame allocator --------------------------- *)
(* The machine state an operation works on:                                *)
(*   m     contents of the table frames                                    *)
(*   used  allocated frames                                                *)
(*   g     allocations the allocator still grants during this call         *)
(*   got   frames allocated during this call, in order                     *)
(*   freed frames passed to palloc_free_page during this call, in order    *)
(*   invl  pages invalidated (invlpg) during this call, in order           *)
(*   visit the visitor's invocations during this call, in order            *)
(*   refused  the allocator returned NULL during this call                 *)
(*   panic the call ended in a failed assertion                            *)

Machine(g) ==
  [m |-> mem, used |-> used, g |-> g, got |-> <<>>, freed |-> <<>>, invl |-> <<>>,
   visit |-> <<>>, refused |-> FALSE, panic |-> FALSE]

palloc_get_page(s, zero) ==
  LET free == KPool \ s.used IN
  IF s.g = 0 \/ free = {}
    THEN [s |-> [s EXCEPT !.refused = TRUE], page |-> NULL]
    ELSE LET f == Min(free) IN
         [s |-> [s EXCEPT !.used = @ \cup {f}, !.g = @ - 1, !.got = Append(@, f),
                          !.m[f] = IF zero THEN ZeroPage ELSE @],
          page |-> ptov(f)]

palloc_free_page(s, page) ==
  LET f == vtop(page) IN
  [s EXCEPT !.used = @ \ {f}, !.freed = Append(@, f),
            !.m = IF f \in DOMAIN @ THEN [@ EXCEPT ![f] = ZeroPage] ELSE @]

\* pdp[idx] for a kernel pointer pdp
Load(s, tbl, idx) == s.m[vtop(tbl)][idx]

Store(s, tbl, idx, e) == [s EXCEPT !.m[vtop(tbl)][idx] = e]

Present(e) == "P" \in e.fl

\* the entry slot at ptov (PTE_ADDR (e)) + 8 * idx
Slot(tbl, idx) == [tbl |-> tbl, idx |-> idx]

\* the null entry pointer
NoPte == Slot(NULL, 0)

(* ------------------------------ walker --------------------------------- *)
(* Each walk returns the machine state it leaves and pte, the leaf entry   *)
(* slot it found, or NULL.                                                 *)

\* an interior entry the user may not pass through
NewTable_kernel(page) == [addr |-> vtop(page), fl |-> {"W", "P"}]

NewTable(page) == [addr |-> vtop(page), fl |-> {"U", "W", "P"}]

pgdir_walk(s, pdp, va, create) ==
  LET idx == PDX(va) IN
  IF pdp # NULL
    THEN IF ~Present(Load(s, pdp, idx))
           THEN IF create
                  THEN LET a == palloc_get_page(s, TRUE) IN
                       IF a.page # NULL
                         THEN LET s1 == Store(a.s, pdp, idx, NewTable(a.page)) IN
                              [s |-> s1, pte |-> Slot(ptov(PTE_ADDR(Load(s1, pdp, idx))), PTX(va))]
                         ELSE [s |-> a.s, pte |-> NoPte]
                  ELSE [s |-> s, pte |-> NoPte]
           ELSE [s |-> s, pte |-> Slot(ptov(PTE_ADDR(Load(s, pdp, idx))), PTX(va))]
    ELSE [s |-> s, pte |-> NoPte]

\* lines 57-61 of pdpe_walk: undo this call's own allocation when the
\* lower levels found nothing
pdpe_rollback(r, pdpe, idx, allocated) ==
  IF r.pte = NoPte /\ allocated
    THEN [s |-> Store(palloc_free_page(r.s, ptov(PTE_ADDR(Load(r.s, pdpe, idx)))), pdpe, idx, ZeroEntry),
          pte |-> r.pte]
    ELSE r

pdpe_walk(s, pdpe, va, create) ==
  LET idx == PDPE(va) IN
  IF pdpe # NULL
    THEN IF ~Present(Load(s, pdpe, idx))
           THEN IF create
                  THEN LET a == palloc_get_page(s, TRUE) IN
                       IF a.page # NULL
                         THEN LET s1 == Store(a.s, pdpe, idx, NewTable(a.page)) IN
                              pdpe_rollback(pgdir_walk(s1, ptov(PTE_ADDR(Load(s1, pdpe, idx))), va, create),
                                            pdpe, idx, TRUE)
                         ELSE [s |-> a.s, pte |-> NoPte]
                  ELSE [s |-> s, pte |-> NoPte]
           ELSE pdpe_rollback(pgdir_walk(s, ptov(PTE_ADDR(Load(s, pdpe, idx))), va, create),
                              pdpe, idx, FALSE)
    ELSE [s |-> s, pte |-> NoPte]

\* a walk that forgets to undo its own allocation
pml4e_rollback_none(r, pml4e, idx, allocated) == r

\* lines 88-92 of pml4e_walk
pml4e_rollback(r, pml4e, idx, allocated) ==
  IF r.pte = NoPte /\ allocated
    THEN [s |-> Store(palloc_free_page(r.s, ptov(PTE_ADDR(Load(r.s, pml4e, idx)))), pml4e, idx, ZeroEntry),
          pte |-> r.pte]
    ELSE r

pml4e_walk(s, pml4e, va, create) ==
  LET idx == PML4(va) IN
  IF pml4e # NULL
    THEN IF ~Present(Load(s, pml4e, idx))
           THEN IF create
                  THEN LET a == palloc_get_page(s, TRUE) IN
                       IF a.page # NULL
                         THEN LET s1 == Store(a.s, pml4e, idx, NewTable(a.page)) IN
                              pml4e_rollback(pdpe_walk(s1, ptov(PTE_ADDR(Load(s1, pml4e, idx))), va, create),
                                             pml4e, idx, TRUE)
                         ELSE [s |-> a.s, pte |-> NoPte]
                  ELSE [s |-> s, pte |-> NoPte]
           ELSE pml4e_rollback(pdpe_walk(s, ptov(PTE_ADDR(Load(s, pml4e, idx))), va, create),
                               pml4e, idx, FALSE)
    ELSE [s |-> s, pte |-> NoPte]

\* *pte for a slot the walk returned
Deref(s, pte) == Load(s, pte.tbl, pte.idx)

(* ----------------------------- lifecycle ------------------------------- *)

\* a create that hands out a zeroed frame without copying the template
pml4_create_blank(s) ==
  LET a == palloc_get_page(s, TRUE) IN
  IF a.page # NULL
    THEN [s |-> a.s, ret |-> a.page]
    ELSE [s |-> a.s, ret |-> NULL]

pml4_create(s) ==
  LET a == palloc_get_page(s, FALSE) IN
  IF a.page # NULL
    THEN [s |-> [a.s EXCEPT !.m[vtop(a.page)] = a.s.m[vtop(base_pml4)]], ret |-> a.page]
    ELSE [s |-> a.s, ret |-> NULL]

\* the value `ptov ((uint64_t *) pt[i])' the destroy loops test and strip
PtovEntry(e) == [addr |-> ptov(e.addr), fl |-> e.fl]

(* The visitor handed to pml4_for_each: it records the entry slot and the  *)
(* address it is called with, and returns false on the addresses in aux.   *)
func(s, pte, va, aux) ==
  [s |-> [s EXCEPT !.visit = Append(@, [pte |-> pte, va |-> va])], ret |-> va \notin aux]

\* an address rebuilt without the table index
MakeVa_noptx(pml4_index, pdp_index, pdx_index, i) ==
  [l4 |-> pml4_index, l3 |-> pdp_index, l2 |-> pdx_index, l1 |-> 0, ofs |-> 0]

\* the address pt_for_each rebuilds from the four indices
MakeVa(pml4_index, pdp_index, pdx_index, i) ==
  [l4 |-> pml4_index, l3 |-> pdp_index, l2 |-> pdx_index, l1 |-> i, ofs |-> 0]

RECURSIVE pt_for_each_from(_, _, _, _, _, _, _)
pt_for_each_from(s, pt, aux, pml4_index, pdp_index, pdx_index, i) ==
  IF i = NEntries
    THEN [s |-> s, ret |-> TRUE]
    ELSE IF Present(Load(s, pt, i))
           THEN LET v == func(s, Slot(pt, i), MakeVa(pml4_index, pdp_index, pdx_index, i), aux) IN
                IF ~v.ret
                  THEN [s |-> v.s, ret |-> FALSE]
                  ELSE pt_for_each_from(v.s, pt, aux, pml4_index, pdp_index, pdx_index, i + 1)
           ELSE pt_for_each_from(s, pt, aux, pml4_index, pdp_index, pdx_index, i + 1)

pt_for_each(s, pt, aux, pml4_index, pdp_index, pdx_index) ==
  pt_for_each_from(s, pt, aux, pml4_index, pdp_index, pdx_index, 0)

RECURSIVE pgdir_for_each_from(_, _, _, _, _, _)
pgdir_for_each_from(s, pdp, aux, pml4_index, pdp_index, i) ==
  IF i = NEntries
    THEN [s |-> s, ret |-> TRUE]
    ELSE LET pte == PtovEntry(Load(s, pdp, i)) IN
         IF Present(pte)
           THEN LET r == pt_for_each(s, PTE_ADDR(pte), aux, pml4_index, pdp_index, i) IN
                IF ~r.ret
                  THEN r
                  ELSE pgdir_for_each_from(r.s, pdp, aux, pml4_index, pdp_index, i + 1)
           ELSE pgdir_for_each_from(s, pdp, aux, pml4_index, pdp_index, i + 1)

pgdir_for_each(s, pdp, aux, pml4_index, pdp_index) ==
  pgdir_for_each_from(s, pdp, aux, pml4_index, pdp_index, 0)

RECURSIVE pdp_for_each_from(_, _, _, _, _)
pdp_for_each_from(s, pdp, aux, pml4_index, i) ==
  IF i = NEntries
    THEN [s |-> s, ret |-> TRUE]
    ELSE LET pde == PtovEntry(Load(s, pdp, i)) IN
         IF Present(pde)
           THEN LET r == pgdir_for_each(s, PTE_ADDR(pde), aux, pml4_index, i) IN
                IF ~r.ret
                  THEN r
                  ELSE pdp_for_each_from(r.s, pdp, aux, pml4_index, i + 1)
           ELSE pdp_for_each_from(s, pdp, aux, pml4_index, i + 1)

pdp_for_each(s, pdp, aux, pml4_index) == pdp_for_each_from(s, pdp, aux, pml4_index, 0)

\* a traversal that goes on with the next top-level slot after a stop
RECURSIVE pml4_for_each_resume(_, _, _, _)
pml4_for_each_resume(s, pml4, aux, i) ==
  IF i = NEntries
    THEN [s |-> s, ret |-> TRUE]
    ELSE LET pdpe == PtovEntry(Load(s, pml4, i)) IN
         IF Present(pdpe)
           THEN pml4_for_each_resume(pdp_for_each(s, PTE_ADDR(pdpe), aux, i).s, pml4, aux, i + 1)
           ELSE pml4_for_each_resume(s, pml4, aux, i + 1)

RECURSIVE pml4_for_each_from(_, _, _, _)
pml4_for_each_from(s, pml4, aux, i) ==
  IF i = NEntries
    THEN [s |-> s, ret |-> TRUE]
    ELSE LET pdpe == PtovEntry(Load(s, pml4, i)) IN
         IF Present(pdpe)
           THEN LET r == pdp_for_each(s, PTE_ADDR(pdpe), aux, i) IN
                IF ~r.ret
                  THEN r
                  ELSE pml4_for_each_from(r.s, pml4, aux, i + 1)
           ELSE pml4_for_each_from(s, pml4, aux, i + 1)

pml4_for_each(s, pml4, aux) == pml4_for_each_from(s, pml4, aux, 0)

\* a teardown that frees the frame of every leaf entry that names one,
\* Present or not
RECURSIVE pt_destroy_all(_, _, _)
pt_destroy_all(s, pt, i) ==
  IF i = NEntries
    THEN palloc_free_page(s, pt)
    ELSE LET pte == PtovEntry(Load(s, pt, i)) IN
         pt_destroy_all(IF pte # PtovEntry(ZeroEntry) THEN palloc_free_page(s, PTE_ADDR(pte)) ELSE s,
                        pt, i + 1)

RECURSIVE pt_destroy_from(_, _, _)
pt_destroy_from(s, pt, i) ==
  IF i = NEntries
    THEN palloc_free_page(s, pt)
    ELSE LET pte == PtovEntry(Load(s, pt, i)) IN
         pt_destroy_from(IF Present(pte) THEN palloc_free_page(s, PTE_ADDR(pte)) ELSE s, pt, i + 1)

pt_destroy(s, pt) == pt_destroy_from(s, pt, 0)

RECURSIVE pgdir_destroy_from(_, _, _)
pgdir_destroy_from(s, pdp, i) ==
  IF i = NEntries
    THEN palloc_free_page(s, pdp)
    ELSE LET pte == PtovEntry(Load(s, pdp, i)) IN
         pgdir_destroy_from(IF Present(pte) THEN pt_destroy(s, PTE_ADDR(pte)) ELSE s, pdp, i + 1)

pgdir_destroy(s, pdp) == pgdir_destroy_from(s, pdp, 0)

RECURSIVE pdpe_destroy_from(_, _, _)
pdpe_destroy_from(s, pdpe, i) ==
  IF i = NEntries
    THEN palloc_free_page(s, pdpe)
    ELSE LET pde == PtovEntry(Load(s, pdpe, i)) IN
         pdpe_destroy_from(IF Present(pde) THEN pgdir_destroy(s, PTE_ADDR(pde)) ELSE s, pdpe, i + 1)

\* a teardown that frees the table without descending into it
pdpe_destroy_shallow(s, pdpe) == palloc_free_page(s, pdpe)

pdpe_destroy(s, pdpe) == pdpe_destroy_from(s, pdpe, 0)

\* a teardown that descends into the kernel's slot
pml4_destroy_kernel(s, pml4) ==
  IF pml4 = NULL
    THEN s
    ELSE LET pdpe == PtovEntry(Load(s, pml4, KernSlot)) IN
         palloc_free_page(IF Present(pdpe) THEN pdpe_destroy(s, PTE_ADDR(pdpe)) ELSE s, pml4)

pml4_destroy(s, pml4) ==
  IF pml4 = NULL
    THEN s
    ELSE LET pdpe == PtovEntry(Load(s, pml4, 0)) IN
         palloc_free_page(IF Present(pdpe) THEN pdpe_destroy(s, PTE_ADDR(pdpe)) ELSE s, pml4)

\* an activate that loads its argument as it is
pml4_activate_raw(pml4) == vtop(pml4)

\* the root lcr3 loads
pml4_activate(pml4) == vtop(IF pml4 # NULL THEN pml4 ELSE base_pml4)

rcr3 == cr3

invlpg(s, va) == [s EXCEPT !.invl = Append(@, va)]

(* ------------------------- mapping operations -------------------------- *)

\* the pointer ptov (PTE_ADDR (*pte)) + pg_ofs (uaddr)
BytePtr(page, ofs) == [page |-> page, ofs |-> ofs]

\* the null byte pointer
NoPage == BytePtr(NULL, 0)

\* a lookup that drops the page offset
pml4_get_page_noofs(s, pml4, uaddr) ==
  LET r == pml4e_walk(s, pml4, uaddr, FALSE) IN
  IF r.pte # NoPte /\ Present(Deref(r.s, r.pte))
    THEN BytePtr(ptov(PTE_ADDR(Deref(r.s, r.pte))), 0)
    ELSE NoPage

pml4_get_page(s, pml4, uaddr) ==
  LET r == pml4e_walk(s, pml4, uaddr, FALSE) IN
  IF r.pte # NoPte /\ Present(Deref(r.s, r.pte))
    THEN BytePtr(ptov(PTE_ADDR(Deref(r.s, r.pte))), pg_ofs(uaddr))
    ELSE NoPage

\* a set_page that refuses to replace a Present mapping
pml4_set_page_once(s, pml4, upage, kpage, rw) ==
  LET r == pml4e_walk(s, pml4, upage, TRUE) IN
  IF r.pte # NoPte /\ ~Present(Deref(r.s, r.pte))
    THEN [s |-> Store(r.s, r.pte.tbl, r.pte.idx,
                      [addr |-> vtop(kpage), fl |-> {"P", "U"} \cup (IF rw THEN {"W"} ELSE {})]),
          ret |-> TRUE]
    ELSE [s |-> r.s, ret |-> FALSE]

\* a set_page that ors the new mapping into the entry it finds
pml4_set_page_keep(s, pml4, upage, kpage, rw) ==
  LET r == pml4e_walk(s, pml4, upage, TRUE) IN
  IF r.pte # NoPte
    THEN [s |-> Store(r.s, r.pte.tbl, r.pte.idx,
                      [addr |-> vtop(kpage),
                       fl |-> {"P", "U"} \cup (IF rw THEN {"W"} ELSE {})
                                \cup (Deref(r.s, r.pte).fl \cap {"D", "A"})]),
          ret |-> TRUE]
    ELSE [s |-> r.s, ret |-> FALSE]

\* a set_page that makes every mapping writable
pml4_set_page_w(s, pml4, upage, kpage, rw) ==
  LET r == pml4e_walk(s, pml4, upage, TRUE) IN
  IF r.pte # NoPte
    THEN [s |-> Store(r.s, r.pte.tbl, r.pte.idx, [addr |-> vtop(kpage), fl |-> {"P", "U", "W"}]),
          ret |-> TRUE]
    ELSE [s |-> r.s, ret |-> FALSE]

pml4_set_page(s, pml4, upage, kpage, rw) ==
  LET r == pml4e_walk(s, pml4, upage, TRUE) IN
  IF r.pte # NoPte
    THEN [s |-> Store(r.s, r.pte.tbl, r.pte.idx,
                      [addr |-> vtop(kpage), fl |-> {"P", "U"} \cup (IF rw THEN {"W"} ELSE {})]),
          ret |-> TRUE]
    ELSE [s |-> r.s, ret |-> FALSE]

\* an unmap that zeroes the whole entry
pml4_clear_page_zero(s, pml4, upage) ==
  LET r == pml4e_walk(s, pml4, upage, FALSE) IN
  IF r.pte # NoPte /\ Present(Deref(r.s, r.pte))
    THEN LET s1 == Store(r.s, r.pte.tbl, r.pte.idx, ZeroEntry) IN
         IF rcr3 = vtop(pml4) THEN invlpg(s1, upage) ELSE s1
    ELSE r.s

\* an unmap that clears the Writable bit instead of the Present bit
pml4_clear_page_w(s, pml4, upage) ==
  LET r == pml4e_walk(s, pml4, upage, FALSE) IN
  IF r.pte # NoPte /\ Present(Deref(r.s, r.pte))
    THEN LET s1 == Store(r.s, r.pte.tbl, r.pte.idx, [Deref(r.s, r.pte) EXCEPT !.fl = @ \ {"W"}]) IN
         IF rcr3 = vtop(pml4) THEN invlpg(s1, upage) ELSE s1
    ELSE r.s

\* an unmap that leaves the cached translation alone
pml4_clear_page_quiet(s, pml4, upage) ==
  LET r == pml4e_walk(s, pml4, upage, FALSE) IN
  IF r.pte # NoPte /\ Present(Deref(r.s, r.pte))
    THEN Store(r.s, r.pte.tbl, r.pte.idx, [Deref(r.s, r.pte) EXCEPT !.fl = @ \ {"P"}])
    ELSE r.s

\* an unmap that gives the emptied leaf table back to the allocator
pml4_clear_page_prune(s, pml4, upage) ==
  LET r == pml4e_walk(s, pml4, upage, FALSE) IN
  IF r.pte # NoPte /\ Present(Deref(r.s, r.pte))
    THEN LET s1 == Store(r.s, r.pte.tbl, r.pte.idx, [Deref(r.s, r.pte) EXCEPT !.fl = @ \ {"P"}])
             s2 == [s1 EXCEPT !.used = @ \ {vtop(r.pte.tbl)}, !.freed = Append(@, vtop(r.pte.tbl))]
         IN  IF rcr3 = vtop(pml4) THEN invlpg(s2, upage) ELSE s2
    ELSE r.s

pml4_clear_page(s, pml4, upage) ==
  LET r == pml4e_walk(s, pml4, upage, FALSE) IN
  IF r.pte # NoPte /\ Present(Deref(r.s, r.pte))
    THEN LET s1 == Store(r.s, r.pte.tbl, r.pte.idx, [Deref(r.s, r.pte) EXCEPT !.fl = @ \ {"P"}]) IN
         IF rcr3 = vtop(pml4) THEN invlpg(s1, upage) ELSE s1
    ELSE r.s

pml4_is_dirty(s, pml4, vpage) ==
  LET r == pml4e_walk(s, pml4, vpage, FALSE) IN
  r.pte # NoPte /\ "D" \in Deref(r.s, r.pte).fl

\* a mask that clears both hardware-maintained bits
MaskOffBoth(e, bit) == [addr |-> e.addr % Low32Frames, fl |-> e.fl \ {"D", "A"}]

\* *pte &= ~(uint32_t) bit: the mask is zero-extended to 64 bits, so the
\* bits of the entry at positions 32 and above are cleared with the bit
MaskOff32(e, bit) == [addr |-> e.addr % Low32Frames, fl |-> e.fl \ {bit}]

\* a setter that invalidates whether or not the walk found an entry
pml4_set_dirty_inval(s, pml4, vpage, dirty) ==
  LET r == pml4e_walk(s, pml4, vpage, FALSE)
      s1 == IF r.pte # NoPte
              THEN Store(r.s, r.pte.tbl, r.pte.idx,
                         IF dirty THEN [Deref(r.s, r.pte) EXCEPT !.fl = @ \cup {"D"}]
                                  ELSE MaskOff32(Deref(r.s, r.pte), "D"))
              ELSE r.s
  IN  IF rcr3 = vtop(pml4) THEN invlpg(s1, vpage) ELSE s1

pml4_set_dirty(s, pml4, vpage, dirty) ==
  LET r == pml4e_walk(s, pml4, vpage, FALSE) IN
  IF r.pte # NoPte
    THEN LET e  == Deref(r.s, r.pte)
             s1 == Store(r.s, r.pte.tbl, r.pte.idx,
                         IF dirty THEN [e EXCEPT !.fl = @ \cup {"D"}] ELSE MaskOff32(e, "D"))
         IN  IF rcr3 = vtop(pml4) THEN invlpg(s1, vpage) ELSE s1
    ELSE r.s

pml4_is_accessed(s, pml4, vpage) ==
  LET r == pml4e_walk(s, pml4, vpage, FALSE) IN
  r.pte # NoPte /\ "A" \in Deref(r.s, r.pte).fl

\* a setter that writes the Dirty bit instead of the Accessed bit
pml4_set_accessed_d(s, pml4, vpage, accessed) ==
  LET r == pml4e_walk(s, pml4, vpage, FALSE) IN
  IF r.pte # NoPte
    THEN LET e  == Deref(r.s, r.pte)
             s1 == Store(r.s, r.pte.tbl, r.pte.idx,
                         IF accessed THEN [e EXCEPT !.fl = @ \cup {"D"}] ELSE MaskOff32(e, "D"))
         IN  IF rcr3 = vtop(pml4) THEN invlpg(s1, vpage) ELSE s1
    ELSE r.s

\* a setter that invalidates the page whichever root is active
pml4_set_accessed_always(s, pml4, vpage, accessed) ==
  LET r == pml4e_walk(s, pml4, vpage, FALSE) IN
  IF r.pte # NoPte
    THEN LET e  == Deref(r.s, r.pte)
             s1 == Store(r.s, r.pte.tbl, r.pte.idx,
                         IF accessed THEN [e EXCEPT !.fl = @ \cup {"A"}] ELSE MaskOff32(e, "A"))
         IN  invlpg(s1, vpage)
    ELSE r.s

pml4_set_accessed(s, pml4, vpage, accessed) ==
  LET r == pml4e_walk(s, pml4, vpage, FALSE) IN
  IF r.pte # NoPte
    THEN LET e  == Deref(r.s, r.pte)
             s1 == Store(r.s, r.pte.tbl, r.pte.idx,
                         IF accessed THEN [e EXCEPT !.fl = @ \cup {"A"}] ELSE MaskOff32(e, "A"))
         IN  IF rcr3 = vtop(pml4) THEN invlpg(s1, vpage) ELSE s1
    ELSE r.s

(* ------------------- the operations with their checks ------------------ *)
(* The public functions as a caller reaches them, with the assertions at   *)
(* their head.  A failed assertion panics: the kernel halts.               *)

PANIC(s) == [s EXCEPT !.panic = TRUE]

\* a set_page that checks its arguments after the walk
pml4_set_page_late(s, pml4, upage, kpage, rw) ==
  LET r == pml4_set_page(s, pml4, [upage EXCEPT !.ofs = 0], kpage.page, rw) IN
  IF pg_ofs(upage) # 0 \/ pg_ofs(kpage) # 0 \/ ~is_user_vaddr(upage) \/ pml4 = base_pml4
    THEN [s |-> PANIC(r.s), ret |-> FALSE]
    ELSE r

pml4_set_page_call(s, pml4, upage, kpage, rw) ==
  IF pg_ofs(upage) # 0 THEN [s |-> PANIC(s), ret |-> FALSE]
  ELSE IF pg_ofs(kpage) # 0 THEN [s |-> PANIC(s), ret |-> FALSE]
  ELSE IF ~is_user_vaddr(upage) THEN [s |-> PANIC(s), ret |-> FALSE]
  ELSE IF pml4 = base_pml4 THEN [s |-> PANIC(s), ret |-> FALSE]
  ELSE pml4_set_page(s, pml4, upage, kpage.page, rw)

pml4_get_page_call(s, pml4, uaddr) ==
  IF ~is_user_vaddr(uaddr)
    THEN [s |-> PANIC(s), ret |-> NoPage]
    ELSE [s |-> s, ret |-> pml4_get_page(s, pml4, uaddr)]

pml4_clear_page_call(s, pml4, upage) ==
  IF pg_ofs(upage) # 0 THEN PANIC(s)
  ELSE IF ~is_user_vaddr(upage) THEN PANIC(s)
  ELSE pml4_clear_page(s, pml4, upage)

pml4_destroy_call(s, pml4) ==
  IF pml4 = NULL THEN s
  ELSE IF pml4 = base_pml4 THEN PANIC(s)
  ELSE pml4_destroy(s, pml4)

(* ------------------------------ the system ----------------------------- *)

UPage(l3, l2, l1) == [l4 |-> 0, l3 |-> l3, l2 |-> l2, l1 |-> l1, ofs |-> 0]

\* the user pages the callers work on: two that share a leaf table and one
\* that shares only the directory-pointer table with them
UPages == {UPage(0, 0, 0), UPage(0, 0, 1), UPage(1, 1, 0)}

\* allocations the frame allocator may grant during one call before it
\* reports exhaustion (a walk asks for at most three)
Grants == 0 .. 3

Op(op, root, va, kpage, flag, ret, s) ==
  [op |-> op, root |-> root, va |-> va, kpage |-> kpage, flag |-> flag, ret |-> ret,
   got |-> s.got, freed |-> s.freed, invl |-> s.invl, visit |-> s.visit,
   refused |-> s.refused, panic |-> s.panic, aux |-> {}, kofs |-> 0]

NoVa == UPage(0, 0, 0)

\* owner of each kernel-pool frame: the root it was allocated for, until freed
Owned(s, root) ==
  [f \in KPool |-> IF f \notin s.used THEN NULL
                   ELSE IF f \notin used THEN root
                   ELSE owner[f]]

Commit(s) ==
  /\ mem' = s.m
  /\ used' = s.used

\* an operation run as a whole, no context in the middle of one
Step ==
  /\ nops < MaxOps
  /\ nops' = nops + 1
  /\ ctx' = ctx
  /\ tlb' = tlb
  /\ curr' = curr

Contexts == {1, 2}

Levels == 2 .. 4

\* a context about to start the first operation of its program
NewCtx(root, prog) ==
  [root |-> root, prog |-> prog, at |-> 1,
   pc |-> IF prog = <<>> THEN "done" ELSE "test",
   lvl |-> 4, tbl |-> [l \in Levels |-> IF l = 4 THEN root ELSE NULL],
   alloc |-> {}, new |-> NULL, pte |-> NoPte,
   rets |-> <<>>, refused |-> FALSE, invl |-> <<>>]

\* a descriptor table entry nobody uses
FreeEntry == [use |-> FALSE, file_p |-> NULL]

\* a thread as it starts: no descriptor in use, running
init_thread ==
  [filedes_table |-> [i \in 0 .. (MAX_FILEDES_ENTRY - 1) |-> FreeEntry],
   exit_code |-> 0, status |-> "running", clobbered |-> FALSE]

\* after boot: the kernel template is built and active, no process root
\* exists, and the callers hold the frames of the user pool
Init ==
  /\ mem = BaseMem
  /\ used = BaseFrames \cup UPool
  /\ roots = {}
  /\ cr3 = vtop(base_pml4)
  /\ owner = [f \in KPool |-> NULL]
  /\ last = Op("boot", NULL, NoVa, NULL, FALSE, FALSE, Machine(0))
  /\ nops = 0
  /\ ctx = [c \in Contexts |-> NewCtx(NULL, <<>>)]
  /\ tlb = {}
  /\ curr = init_thread

\* a caller obtains a frame from the user pool
UserPageGet ==
  \E f \in UPool \ used :
    /\ used' = used \cup {f}
    /\ last' = Op("palloc_user", NULL, NoVa, ptov(f), FALSE, TRUE, Machine(0))
    /\ UNCHANGED <<mem, roots, cr3, owner>>

Create ==
  \E g \in 0 .. 1 :
    /\ Cardinality(roots) < MaxRoots
    /\ LET r == pml4_create(Machine(g)) IN
       /\ Commit(r.s)
       /\ roots' = IF r.ret # NULL THEN roots \cup {r.ret} ELSE roots
       /\ owner' = Owned(r.s, r.ret)
       /\ last' = Op("create", r.ret, NoVa, NULL, FALSE, r.ret # NULL, r.s)
    /\ UNCHANGED cr3

\* a root is destroyed only once it is no longer the active one
Destroy ==
  \E pml4 \in roots :
    /\ pml4 # base_pml4
    /\ rcr3 # vtop(pml4)
    /\ LET s == pml4_destroy(Machine(0), pml4) IN
       /\ Commit(s)
       /\ owner' = Owned(s, pml4)
       /\ last' = Op("destroy", pml4, NoVa, NULL, FALSE, TRUE, s)
    /\ roots' = roots \ {pml4}
    /\ UNCHANGED cr3

Activate ==
  \E pml4 \in roots \cup {NULL} :
    /\ cr3' = pml4_activate(pml4)
    /\ last' = Op("activate", pml4, NoVa, NULL, FALSE, TRUE, Machine(0))
    /\ UNCHANGED <<mem, used, roots, owner>>

SetPage ==
  \E pml4 \in roots, upage \in UPages, f \in UPool \cap used, rw \in BOOLEAN, g \in Grants :
    /\ pg_ofs(upage) = 0
    /\ is_user_vaddr(upage)
    /\ pml4 # base_pml4
    /\ LET r == pml4_set_page(Machine(g), pml4, upage, ptov(f), rw) IN
       /\ Commit(r.s)
       /\ owner' = Owned(r.s, pml4)
       /\ last' = Op("set_page", pml4, upage, ptov(f), rw, r.ret, r.s)
    /\ UNCHANGED <<roots, cr3>>

ClearPage ==
  \E pml4 \in roots, upage \in UPages :
    /\ pg_ofs(upage) = 0
    /\ is_user_vaddr(upage)
    /\ LET s == pml4_clear_page(Machine(0), pml4, upage) IN
       /\ Commit(s)
       /\ last' = Op("clear_page", pml4, upage, NULL, FALSE, s.m # mem, s)
    /\ UNCHANGED <<roots, cr3, owner>>

SetDirty ==
  \E pml4 \in roots, vpage \in UPages, dirty \in BOOLEAN :
    /\ LET s == pml4_set_dirty(Machine(0), pml4, vpage, dirty) IN
       /\ Commit(s)
       /\ last' = Op("set_dirty", pml4, vpage, NULL, dirty, TRUE, s)
    /\ UNCHANGED <<roots, cr3, owner>>

SetAccessed ==
  \E pml4 \in roots, vpage \in UPages, accessed \in BOOLEAN :
    /\ LET s == pml4_set_accessed(Machine(0), pml4, vpage, accessed) IN
       /\ Commit(s)
       /\ last' = Op("set_accessed", pml4, vpage, NULL, accessed, TRUE, s)
    /\ UNCHANGED <<roots, cr3, owner>>

GetPage ==
  \E pml4 \in roots, upage \in UPages, ofs \in 0 .. (NOffsets - 1) :
    /\ is_user_vaddr(upage)
    /\ LET uaddr == [upage EXCEPT !.ofs = ofs]
           ret   == pml4_get_page(Machine(0), pml4, uaddr)
       IN  last' = Op("get_page", pml4, uaddr, ret.page, FALSE, ret # NoPage, Machine(0))
    /\ UNCHANGED <<mem, used, roots, cr3, owner>>

IsDirty ==
  \E pml4 \in roots, vpage \in UPages :
    /\ last' = Op("is_dirty", pml4, vpage, NULL, FALSE, pml4_is_dirty(Machine(0), pml4, vpage), Machine(0))
    /\ UNCHANGED <<mem, used, roots, cr3, owner>>

IsAccessed ==
  \E pml4 \in roots, vpage \in UPages :
    /\ last' = Op("is_accessed", pml4, vpage, NULL, FALSE, pml4_is_accessed(Machine(0), pml4, vpage), Machine(0))
    /\ UNCHANGED <<mem, used, roots, cr3, owner>>

Next ==
  \/ Step /\ UserPageGet
  \/ Step /\ Create
  \/ Step /\ Destroy
  \/ Step /\ Activate
  \/ Step /\ SetPage
  \/ Step /\ ClearPage
  \/ Step /\ SetDirty
  \/ Step /\ SetAccessed
  \/ Step /\ GetPage
  \/ Step /\ IsDirty
  \/ Step /\ IsAccessed

Spec == Init /\ [][Next]_vars

\* the kernel page the template maps
KernelVa == [l4 |-> KernSlot, l3 |-> 0, l2 |-> 1, l1 |-> 0, ofs |-> 0]

\* the addresses a visitor may stop on: none, or one page
StopSets == {{}} \cup {{a} : a \in UPages \cup {KernelVa}}

ForEach ==
  \E pml4 \in roots \cup {base_pml4}, aux \in StopSets :
    /\ LET r == pml4_for_each(Machine(0), pml4, aux) IN
       /\ Commit(r.s)
       /\ last' = [Op("for_each", pml4, NoVa, NULL, FALSE, r.ret, r.s) EXCEPT !.aux = aux]
    /\ UNCHANGED <<roots, cr3, owner>>

\* every operation, the traversal included
NextEach ==
  \/ Step /\ UserPageGet
  \/ Step /\ Create
  \/ Step /\ Destroy
  \/ Step /\ Activate
  \/ Step /\ SetPage
  \/ Step /\ ClearPage
  \/ Step /\ SetDirty
  \/ Step /\ SetAccessed
  \/ Step /\ GetPage
  \/ Step /\ IsDirty
  \/ Step /\ IsAccessed
  \/ Step /\ ForEach

SpecEach == Init /\ [][NextEach]_vars

\* the mapping operations alone: create, set_page, clear_page and destroy
NextMap ==
  \/ Step /\ UserPageGet
  \/ Step /\ Create
  \/ Step /\ Destroy
  \/ Step /\ SetPage
  \/ Step /\ ClearPage

SpecMap == Init /\ [][NextMap]_vars

\* a caller walks to the leaf entry of a page itself
Walk ==
  \E pml4 \in roots, va \in UPages, create \in BOOLEAN, g \in Grants :
    /\ LET r == pml4e_walk(Machine(g), pml4, va, create) IN
       /\ Commit(r.s)
       /\ owner' = Owned(r.s, pml4)
       /\ last' = Op("walk", pml4, va, NULL, create, r.pte # NoPte, r.s)
    /\ UNCHANGED <<roots, cr3>>

\* the mapping operations and the bare walk
NextWalk ==
  \/ Step /\ UserPageGet
  \/ Step /\ Create
  \/ Step /\ Destroy
  \/ Step /\ SetPage
  \/ Step /\ ClearPage
  \/ Step /\ Walk

SpecWalk == Init /\ [][NextWalk]_vars

\* the addresses a caller may pass: the user pages, one of them with a
\* page offset, and the kernel page
AnyVa == UPages \cup {[UPage(0, 0, 0) EXCEPT !.ofs = 1], KernelVa}

\* nothing runs after a panic
Running == Step /\ ~last.panic

SetPageAny ==
  \E pml4 \in roots \cup {base_pml4}, upage \in AnyVa, f \in UPool \cap used,
     kofs \in 0 .. (NOffsets - 1), rw \in BOOLEAN, g \in Grants :
    /\ LET r == pml4_set_page_call(Machine(g), pml4, upage, BytePtr(ptov(f), kofs), rw) IN
       /\ Commit(r.s)
       /\ owner' = Owned(r.s, pml4)
       /\ last' = [Op("set_page", pml4, upage, ptov(f), rw, r.ret, r.s) EXCEPT !.kofs = kofs]
    /\ UNCHANGED <<roots, cr3>>

GetPageAny ==
  \E pml4 \in roots, uaddr \in AnyVa :
    /\ LET r == pml4_get_page_call(Machine(0), pml4, uaddr) IN
       last' = Op("get_page", pml4, uaddr, r.ret.page, FALSE, r.ret # NoPage, r.s)
    /\ UNCHANGED <<mem, used, roots, cr3, owner>>

ClearPageAny ==
  \E pml4 \in roots, upage \in AnyVa :
    /\ LET s == pml4_clear_page_call(Machine(0), pml4, upage) IN
       /\ Commit(s)
       /\ last' = Op("clear_page", pml4, upage, NULL, FALSE, s.m # mem, s)
    /\ UNCHANGED <<roots, cr3, owner>>

\* a live root is destroyed only once it is no longer the active one
DestroyAny ==
  \E pml4 \in roots \cup {base_pml4, NULL} :
    /\ pml4 \in roots => rcr3 # vtop(pml4)
    /\ LET s == pml4_destroy_call(Machine(0), pml4) IN
       /\ Commit(s)
       /\ owner' = Owned(s, pml4)
       /\ last' = Op("destroy", pml4, NoVa, NULL, FALSE, ~s.panic, s)
       /\ roots' = IF s.panic THEN roots ELSE roots \ {pml4}
    /\ UNCHANGED cr3

\* the operations that check their arguments, called with any argument
NextContract ==
  \/ Running /\ UserPageGet
  \/ Running /\ Create
  \/ Running /\ Activate
  \/ Running /\ SetPageAny
  \/ Running /\ GetPageAny
  \/ Running /\ ClearPageAny
  \/ Running /\ DestroyAny

SpecContract == Init /\ [][NextContract]_vars

\* the machine as it is now
Cur == Machine(0)

(* ------------------------ two execution contexts ------------------------ *)
(* Each context runs a sequence of mapping operations on its own root.  A  *)
(* step is one load, one store or one allocator call of the operation the  *)
(* context is in; the steps of the two contexts interleave freely.         *)

\* the machine after boot and one pml4_create per context
ConcBoot ==
  pml4_create(pml4_create([m |-> BaseMem, used |-> BaseFrames \cup UPool, g |-> 2,
                           got |-> <<>>, freed |-> <<>>, invl |-> <<>>, visit |-> <<>>,
                           refused |-> FALSE, panic |-> FALSE]).s).s

\* two contexts that work on one root
RootOf_shared(c) == ptov(ConcBoot.got[1])

\* the root pml4_create returned to context c
RootOf(c) == ptov(ConcBoot.got[c])

Call(op, va, kpage, flag) == [op |-> op, va |-> va, kpage |-> kpage, flag |-> flag]

\* the operation sequences a context may run
Programs ==
  {<<Call("set_page", UPage(0, 0, 0), ptov(Min(UPool)), TRUE),
     Call("set_dirty", UPage(0, 0, 0), NULL, TRUE),
     Call("get_page", UPage(0, 0, 0), NULL, FALSE)>>,
   <<Call("set_page", UPage(0, 0, 1), ptov(Min(UPool)), FALSE),
     Call("clear_page", UPage(0, 0, 1), NULL, FALSE),
     Call("set_accessed", UPage(0, 0, 1), NULL, TRUE)>>}

\* kernel-pool frames the two walks can take before the pool runs dry
PoolLeft == {4, 6}

InitConc ==
  /\ mem = ConcBoot.m
  /\ \E n \in PoolLeft :
       /\ used = ConcBoot.used \cup {f \in KPool : f > vtop(RootOf(2)) + n}
       /\ owner = [f \in KPool |-> IF \E c \in Contexts : f = vtop(RootOf(c)) THEN ptov(f)
                                   ELSE IF f > vtop(RootOf(2)) + n THEN base_pml4
                                   ELSE NULL]
  /\ roots = {RootOf(c) : c \in Contexts}
  /\ cr3 = vtop(RootOf(1))
  /\ last = Op("boot", NULL, NoVa, NULL, FALSE, FALSE, ConcBoot)
  /\ nops = 0
  /\ \E p \in [Contexts -> Programs] : ctx = [c \in Contexts |-> NewCtx(RootOf(c), p[c])]
  /\ tlb = {}
  /\ curr = init_thread

\* the table index of va the walk uses at a level
IndexAt(va, lvl) == CASE lvl = 4 -> PML4(va) [] lvl = 3 -> PDPE(va) [] lvl = 2 -> PDX(va)

\* the operation a context is in
Current(x) == x.prog[x.at]

Result(ok, page) == [ok |-> ok, page |-> page]

\* the operation returns: the context moves on to its next operation
Finish(x, ret) ==
  [NewCtx(x.root, x.prog) EXCEPT
     !.at = x.at + 1, !.pc = IF x.at = Len(x.prog) THEN "done" ELSE "test",
     !.rets = Append(x.rets, ret), !.refused = x.refused, !.invl = x.invl]

\* the walk function of level lvl returns NULL to its caller
ReturnNull(x) == [x EXCEPT !.pc = "unwind", !.lvl = x.lvl + 1]

Move(c, x) ==
  /\ ctx' = [ctx EXCEPT ![c] = x]
  /\ UNCHANGED <<roots, cr3, owner, last, nops, tlb, curr>>

\* if (!((uint64_t) pte & PTE_P)): the entry of this level is read
CtxTest ==
  \E c \in Contexts :
    LET x == ctx[c]  o == Current(x) IN
    /\ x.pc = "test"
    /\ Move(c, IF Present(Load(Cur, x.tbl[x.lvl], IndexAt(o.va, x.lvl)))
                 THEN [x EXCEPT !.pc = "descend"]
                 ELSE IF o.op = "set_page" THEN [x EXCEPT !.pc = "alloc"] ELSE ReturnNull(x))
    /\ UNCHANGED <<mem, used>>

\* new_page = palloc_get_page (PAL_ZERO), atomic
CtxAlloc ==
  \E c \in Contexts :
    LET x == ctx[c]  a == palloc_get_page(Machine(1), TRUE) IN
    /\ x.pc = "alloc"
    /\ Commit(a.s)
    /\ Move(c, IF a.page # NULL
                 THEN [x EXCEPT !.pc = "install", !.new = a.page]
                 ELSE [ReturnNull(x) EXCEPT !.refused = TRUE])

\* pdp[idx] = vtop (new_page) | PTE_U | PTE_W | PTE_P; allocated = 1
CtxInstall ==
  \E c \in Contexts :
    LET x == ctx[c]  o == Current(x) IN
    /\ x.pc = "install"
    /\ Commit(Store(Cur, x.tbl[x.lvl], IndexAt(o.va, x.lvl), NewTable(x.new)))
    /\ Move(c, [x EXCEPT !.pc = "descend",
                         !.alloc = IF x.lvl > 2 THEN @ \cup {x.lvl} ELSE @])

\* the entry is read again and the walk goes down: to the next table, or
\* from the directory to the leaf entry, which it returns
CtxDescend ==
  \E c \in Contexts :
    LET x == ctx[c]  o == Current(x)
        child == ptov(PTE_ADDR(Load(Cur, x.tbl[x.lvl], IndexAt(o.va, x.lvl))))
    IN
    /\ x.pc = "descend"
    /\ Move(c, IF x.lvl = 2
                 THEN [x EXCEPT !.pc = "use", !.pte = Slot(child, PTX(o.va))]
                 ELSE [x EXCEPT !.pc = "test", !.lvl = x.lvl - 1, !.tbl[x.lvl - 1] = child])
    /\ UNCHANGED <<mem, used>>

\* if (pte == NULL && allocated) at the level the NULL came back to; the
\* operation itself sits above level 4
CtxUnwind ==
  \E c \in Contexts :
    LET x == ctx[c] IN
    /\ x.pc = "unwind"
    /\ Move(c, IF x.lvl = 5 THEN Finish(x, Result(FALSE, NULL))
               ELSE IF x.lvl \in x.alloc THEN [x EXCEPT !.pc = "free"]
               ELSE ReturnNull(x))
    /\ UNCHANGED <<mem, used>>

\* palloc_free_page ((void *) ptov (PTE_ADDR (pdpe[idx]))), atomic
CtxFree ==
  \E c \in Contexts :
    LET x == ctx[c]  o == Current(x) IN
    /\ x.pc = "free"
    /\ Commit(palloc_free_page(Cur, ptov(PTE_ADDR(Load(Cur, x.tbl[x.lvl], IndexAt(o.va, x.lvl))))))
    /\ Move(c, [x EXCEPT !.pc = "zero"])

\* pdpe[idx] = 0
CtxZero ==
  \E c \in Contexts :
    LET x == ctx[c]  o == Current(x) IN
    /\ x.pc = "zero"
    /\ Commit(Store(Cur, x.tbl[x.lvl], IndexAt(o.va, x.lvl), ZeroEntry))
    /\ Move(c, ReturnNull(x))

\* the operation has the leaf entry: set_page stores it, get_page and
\* clear_page read it, the setters read, modify and write it
CtxUse ==
  \E c \in Contexts :
    LET x == ctx[c]  o == Current(x)  e == Deref(Cur, x.pte) IN
    /\ x.pc = "use"
    /\ CASE o.op = "set_page" ->
              /\ Commit(Store(Cur, x.pte.tbl, x.pte.idx,
                              [addr |-> vtop(o.kpage),
                               fl |-> {"P", "U"} \cup (IF o.flag THEN {"W"} ELSE {})]))
              /\ Move(c, Finish(x, Result(TRUE, NULL)))
         [] o.op = "get_page" ->
              /\ UNCHANGED <<mem, used>>
              /\ Move(c, Finish(x, IF Present(e) THEN Result(TRUE, ptov(PTE_ADDR(e)))
                                                 ELSE Result(FALSE, NULL)))
         [] o.op = "clear_page" ->
              /\ UNCHANGED <<mem, used>>
              /\ Move(c, IF Present(e) THEN [x EXCEPT !.pc = "rmw"]
                                       ELSE Finish(x, Result(FALSE, NULL)))
         [] o.op = "set_dirty" ->
              /\ Commit(Store(Cur, x.pte.tbl, x.pte.idx,
                              IF o.flag THEN [e EXCEPT !.fl = @ \cup {"D"}] ELSE MaskOff32(e, "D")))
              /\ Move(c, [x EXCEPT !.pc = "tlb"])
         [] o.op = "set_accessed" ->
              /\ Commit(Store(Cur, x.pte.tbl, x.pte.idx,
                              IF o.flag THEN [e EXCEPT !.fl = @ \cup {"A"}] ELSE MaskOff32(e, "A")))
              /\ Move(c, [x EXCEPT !.pc = "tlb"])

\* *pte &= ~PTE_P
CtxRmw ==
  \E c \in Contexts :
    LET x == ctx[c] IN
    /\ x.pc = "rmw"
    /\ Commit(Store(Cur, x.pte.tbl, x.pte.idx, [Deref(Cur, x.pte) EXCEPT !.fl = @ \ {"P"}]))
    /\ Move(c, [x EXCEPT !.pc = "tlb"])

\* if (rcr3 () == vtop (pml4)) invlpg (...)
CtxTlb ==
  \E c \in Contexts :
    LET x == ctx[c]  o == Current(x) IN
    /\ x.pc = "tlb"
    /\ Move(c, Finish([x EXCEPT !.invl = IF rcr3 = vtop(x.root) THEN Append(@, o.va) ELSE @],
                      Result(TRUE, NULL)))
    /\ UNCHANGED <<mem, used>>

NextConc ==
  \/ CtxTest
  \/ CtxAlloc
  \/ CtxInstall
  \/ CtxDescend
  \/ CtxUnwind
  \/ CtxFree
  \/ CtxZero
  \/ CtxUse
  \/ CtxRmw
  \/ CtxTlb

SpecConc == InitConc /\ [][NextConc]_vars

(* ------------------------------ properties ----------------------------- *)

\* the machine after the step
Post ==
  [m |-> mem', used |-> used', g |-> 0, got |-> <<>>, freed |-> <<>>, invl |-> <<>>,
   visit |-> <<>>, refused |-> FALSE, panic |-> FALSE]

\* every page-aligned user address
UserPageSet == {PageOf(va) : va \in {v \in VAddr : is_user_vaddr(v)}}

\* the leaf entry of a in root is reachable and Present
Mapped(root, a) ==
  LET r == pml4e_walk(Cur, root, a, FALSE) IN r.pte # NoPte /\ Present(Deref(r.s, r.pte))

\* the walk finds a leaf entry slot for a in root
HasSlot(root, a) == pml4e_walk(Cur, root, a, FALSE).pte # NoPte

LeafEntry(root, a) == Deref(Cur, pml4e_walk(Cur, root, a, FALSE).pte)

Range(q) == {q[i] : i \in DOMAIN q}

NoDuplicates(q) == \A i, j \in DOMAIN q : i # j => q[i] # q[j]

\* C1: right after a successful set_page(root, a, frame, w), get_page(root,
\* a + off) is the kernel address of frame plus off, for every page offset
\* off and both values of w.
C1_SetThenGet ==
  (last.op = "set_page" /\ last.ret) =>
    \A off \in 0 .. (NOffsets - 1) :
      pml4_get_page(Cur, last.root, [last.va EXCEPT !.ofs = off])
        = BytePtr(ptov(vtop(last.kpage)), off)

C1_Witness ==
  /\ last.op = "set_page" /\ last.ret /\ ~last.flag
  /\ Len(last.got) = 3
  /\ pml4_get_page(Cur, last.root, [last.va EXCEPT !.ofs = 1]) = BytePtr(last.kpage, 1)

\* C2: a set_page whose creating walk is refused a frame on its first,
\* second or third interior-node request reports failure and leaves every
\* entry and the set of allocated frames as they were; every node the call
\* allocated has been freed again.
C2_FailedWalkRollsBack ==
  [][(last'.op = "set_page" /\ ~last'.ret) =>
       /\ mem' = mem
       /\ used' = used
       /\ owner' = owner
       /\ Len(last'.got) \in 0 .. 2
       /\ Range(last'.freed) = Range(last'.got)
       /\ Len(last'.freed) = Len(last'.got)]_vars

C2_Witness ==
  /\ last.op = "set_page" /\ ~last.ret
  /\ Len(last.got) = 2 /\ Len(last.freed) = 2
  /\ KPool \ used # {}

C4_TemplateIntact ==
  /\ BaseFrames \subseteq used
  /\ \A f \in 1 .. 4 : mem[f] = BaseMem[f]
  /\ \A r \in roots \cup {base_pml4} :
       /\ Load(Cur, r, KernSlot) = BaseMem[1][KernSlot]
       /\ HasSlot(r, KernelVa)
       /\ LeafEntry(r, KernelVa) = [addr |-> 5, fl |-> {"P", "W"}]

C4_Witness ==
  /\ last.op = "destroy"
  /\ Len(last.freed) >= 5
  /\ roots # {}

\* C5: one destroy passes no frame to palloc_free_page twice.
C5_NoDoubleFree ==
  last.op = "destroy" => NoDuplicates(last.freed)

\* C6: after clear_page(root, a), get_page(root, a) is absent; a second
\* clear_page(root, a) changes no entry and invalidates nothing.
C6_ClearThenAbsent ==
  /\ [](last.op = "clear_page" => pml4_get_page(Cur, last.root, last.va) = NoPage)
  /\ [][(last.op = "clear_page" /\ last'.op = "clear_page"
           /\ last'.root = last.root /\ last'.va = last.va) =>
          (mem' = mem /\ used' = used /\ last'.invl = <<>>)]_vars

C6_Witness ==
  /\ last.op = "clear_page" /\ ~last.ret
  /\ HasSlot(last.root, last.va)
  /\ LeafEntry(last.root, last.va).addr \in UPool

\* C7 as written: is_dirty and is_accessed are false for every address
\* with no Present mapping.
C7_FalseWhenUnmapped ==
  \A r \in roots, a \in UserPageSet :
    ~Mapped(r, a) => ~pml4_is_dirty(Cur, r, a) /\ ~pml4_is_accessed(Cur, r, a)

\* C7 amended: is_dirty (is_accessed) of an address turns true only by
\* set_dirty (set_accessed) with value true on that address, and
\* clear_page changes neither answer; so the queries are false for an
\* unmapped address unless its bit was set that way and not reset since.
C7_BitsOnlyFromSetters ==
  [][mem' # mem =>
      \A r \in roots', a \in UserPageSet :
       /\ ~(last'.op = "set_dirty" /\ last'.root = r /\ last'.va = a /\ last'.flag) =>
            (pml4_is_dirty(Post, r, a) => pml4_is_dirty(Cur, r, a))
       /\ ~(last'.op = "set_accessed" /\ last'.root = r /\ last'.va = a /\ last'.flag) =>
            (pml4_is_accessed(Post, r, a) => pml4_is_accessed(Cur, r, a))
       /\ last'.op = "clear_page" =>
            /\ pml4_is_dirty(Post, r, a) = pml4_is_dirty(Cur, r, a)
            /\ pml4_is_accessed(Post, r, a) = pml4_is_accessed(Cur, r, a)]_vars

C7_Witness ==
  /\ last.op = "clear_page" /\ last.ret
  /\ ~Mapped(last.root, last.va)
  /\ pml4_is_dirty(Cur, last.root, last.va)

\* C8 as written: set_dirty and set_accessed on an address with no Present
\* mapping change no entry and invalidate nothing.
C8_NoOpWhenUnmapped ==
  [][(last'.op \in {"set_dirty", "set_accessed"} /\ ~Mapped(last'.root, last'.va)) =>
       (mem' = mem /\ last'.invl = <<>>)]_vars

\* C8 amended: set_dirty and set_accessed change no entry and invalidate
\* nothing when the walk finds no leaf entry slot for the address.
C8_NoOpWithoutSlot ==
  [][(last'.op \in {"set_dirty", "set_accessed"} /\ ~HasSlot(last'.root, last'.va)) =>
       (mem' = mem /\ used' = used /\ last'.invl = <<>>)]_vars

C8_Witness ==
  /\ last.op = "set_dirty" /\ last.flag
  /\ ~HasSlot(last.root, last.va)
  /\ cr3 = vtop(last.root)
  /\ \E a \in UPages : Mapped(last.root, a)

\* C9: on a Present page, is_dirty after set_dirty(b) is b and is_accessed
\* after set_accessed(b) is b; set_dirty leaves every is_accessed answer
\* as it was and set_accessed every is_dirty answer.
C9_SetThenQuery ==
  /\ []((last.op = "set_dirty" /\ Mapped(last.root, last.va)) =>
          pml4_is_dirty(Cur, last.root, last.va) = last.flag)
  /\ []((last.op = "set_accessed" /\ Mapped(last.root, last.va)) =>
          pml4_is_accessed(Cur, last.root, last.va) = last.flag)
  /\ [][\A r \in roots, a \in UserPageSet :
          /\ last'.op = "set_dirty" =>
               pml4_is_accessed(Post, r, a) = pml4_is_accessed(Cur, r, a)
          /\ last'.op = "set_accessed" =>
               pml4_is_dirty(Post, r, a) = pml4_is_dirty(Cur, r, a)]_vars

C9_Witness ==
  /\ last.op = "set_dirty" /\ ~last.flag
  /\ Mapped(last.root, last.va)
  /\ pml4_is_accessed(Cur, last.root, last.va)
  /\ ~pml4_is_dirty(Cur, last.root, last.va)

\* C10: clear_page on a Present leaf entry removes that entry's Present
\* bit and changes nothing else: not its frame address or other bits, no
\* other entry, no frame's allocation.
C10_ClearOnlyPresent ==
  [][(last'.op = "clear_page" /\ Mapped(last'.root, last'.va)) =>
       LET pte == pml4e_walk(Cur, last'.root, last'.va, FALSE).pte IN
       /\ mem' = [mem EXCEPT ![vtop(pte.tbl)][pte.idx].fl = @ \ {"P"}]
       /\ mem' # mem
       /\ used' = used
       /\ last'.got = <<>> /\ last'.freed = <<>>]_vars

C10_Witness ==
  /\ last.op = "clear_page" /\ last.ret
  /\ LeafEntry(last.root, last.va).fl = {"W", "U", "D"}
  /\ LeafEntry(last.root, last.va).addr \in UPool

\* C11 as written: clear_page on a Present entry, and every set_dirty and
\* set_accessed, invalidate exactly the target page when the root is the
\* active one and nothing when it is not.
C11_InvalidateIffActive ==
  [][((last'.op = "clear_page" /\ Mapped(last'.root, last'.va))
        \/ last'.op \in {"set_dirty", "set_accessed"}) =>
       last'.invl = IF rcr3 = vtop(last'.root) THEN <<last'.va>> ELSE <<>>]_vars

\* C11 amended: clear_page on a Present entry, and set_dirty and
\* set_accessed on an address for which the walk finds a leaf entry,
\* invalidate exactly the target page when the root is the active one; all
\* three invalidate nothing when the root is not active, and the two
\* setters invalidate nothing when the walk finds no leaf entry.
C11_InvalidateWrittenPage ==
  [][last'.op \in {"clear_page", "set_dirty", "set_accessed"} =>
       /\ ((last'.op = "clear_page" /\ Mapped(last'.root, last'.va))
             \/ (last'.op # "clear_page" /\ HasSlot(last'.root, last'.va))) =>
            last'.invl = IF rcr3 = vtop(last'.root) THEN <<last'.va>> ELSE <<>>
       /\ rcr3 # vtop(last'.root) => last'.invl = <<>>
       /\ (last'.op # "clear_page" /\ ~HasSlot(last'.root, last'.va)) =>
            last'.invl = <<>>]_vars

C11_Witness ==
  /\ last.op = "set_accessed"
  /\ HasSlot(last.root, last.va)
  /\ rcr3 = vtop(last.root)
  /\ last.invl = <<last.va>>

\* every page-aligned address, user and kernel
PageSet == {PageOf(va) : va \in VAddr}

\* position of a page in ascending address order
VaNum(a) == ((PML4(a) * NEntries + PDPE(a)) * NEntries + PDX(a)) * NEntries + PTX(a)

Ascending(q) == \A i, j \in DOMAIN q : i < j => VaNum(q[i].va) < VaNum(q[j].va)

VisitedVas(q) == {q[i].va : i \in DOMAIN q}

\* C12: a for_each whose visitor always continues calls the visitor on
\* exactly the Present leaf entries reachable from the root, once each, in
\* ascending address order, with the entry's slot and the address it maps;
\* it calls it on no address without a Present entry, and returns true.
C12_ForEachVisitsPresent ==
  (last.op = "for_each" /\ last.aux = {}) =>
    /\ last.ret
    /\ VisitedVas(last.visit) = {a \in PageSet : Mapped(last.root, a)}
    /\ Ascending(last.visit)
    /\ \A i \in DOMAIN last.visit :
         last.visit[i].pte = pml4e_walk(Cur, last.root, last.visit[i].va, FALSE).pte

C12_Witness ==
  /\ last.op = "for_each" /\ last.aux = {}
  /\ Len(last.visit) = 3
  /\ UPage(0, 0, 1) \in VisitedVas(last.visit)
  /\ \E a \in UPages : HasSlot(last.root, a) /\ ~Mapped(last.root, a)

\* C13: when the visitor returns false on a Present leaf entry, for_each
\* returns false, the visitor is called on no later entry, and the calls
\* made are exactly those on the Present leaves up to and including that
\* entry, in ascending address order.
C13_StopAborts ==
  (last.op = "for_each" /\ \E a \in last.aux : Mapped(last.root, a)) =>
    LET stop == CHOOSE a \in last.aux : Mapped(last.root, a) IN
    /\ ~last.ret
    /\ VisitedVas(last.visit) =
         {a \in PageSet : Mapped(last.root, a) /\ VaNum(a) <= VaNum(stop)}
    /\ Ascending(last.visit)
    /\ last.visit[Len(last.visit)].va = stop

C13_Witness ==
  /\ last.op = "for_each" /\ ~last.ret
  /\ Len(last.visit) = 1
  /\ \E a \in UPages : Mapped(last.root, a) /\ VaNum(a) > VaNum(last.visit[1].va)

\* C14: a create that returns a root has allocated exactly one frame, the
\* root, and changed no other frame; every top-level slot of the root
\* equals the template's slot, so the kernel slot names the template's own
\* directory-pointer table, and get_page on the root is absent for every
\* user address the template does not map.  A create returns no root only
\* when the allocator refused the frame, and then nothing has changed.
C14_CreateCopiesTemplate ==
  [][last'.op = "create" =>
       IF last'.ret
         THEN LET f == vtop(last'.root) IN
              /\ last'.got = <<f>> /\ last'.freed = <<>>
              /\ f \notin used /\ used' = used \cup {f}
              /\ mem' = [mem EXCEPT ![f] = mem[vtop(base_pml4)]]
              /\ \A i \in Index : Load(Post, last'.root, i) = Load(Cur, base_pml4, i)
              /\ PTE_ADDR(Load(Post, last'.root, KernSlot)) = PTE_ADDR(BaseMem[1][KernSlot])
              /\ \A a \in UserPageSet, off \in 0 .. (NOffsets - 1) :
                   ~Mapped(base_pml4, a) =>
                     pml4_get_page(Post, last'.root, [a EXCEPT !.ofs = off]) = NoPage
         ELSE /\ last'.refused /\ last'.root = NULL
              /\ last'.got = <<>> /\ last'.freed = <<>>
              /\ mem' = mem /\ used' = used /\ roots' = roots
              /\ cr3' = cr3 /\ owner' = owner]_vars

C14_Witness ==
  /\ last.op = "create" /\ last.ret
  /\ Load(Cur, last.root, KernSlot) = BaseMem[1][KernSlot]
  /\ \E r \in roots \ {last.root}, a \in UPages : Mapped(r, a)

\* the interior entries on the path from root to the leaf entry of a, as
\* far as the path exists in machine s: <<table frame, index>> per level
PathSlots(s, root, a) ==
  LET e4 == Load(s, root, PML4(a)) IN
  IF ~Present(e4) THEN {<<vtop(root), PML4(a)>>}
  ELSE LET e3 == Load(s, ptov(PTE_ADDR(e4)), PDPE(a)) IN
       IF ~Present(e3) THEN {<<vtop(root), PML4(a)>>, <<PTE_ADDR(e4), PDPE(a)>>}
       ELSE {<<vtop(root), PML4(a)>>, <<PTE_ADDR(e4), PDPE(a)>>, <<PTE_ADDR(e3), PDX(a)>>}

\* C15: after a successful set_page(root, upage, kpage, rw) the leaf entry
\* of upage names kpage's frame and carries Present and User, Writable
\* exactly when rw, and no other bit.  The only other entries of any
\* table that changed are interior entries on the path to upage that were
\* not Present, so every other leaf entry keeps its value; the other leaf
\* entries of the root, those that came into being with a new table
\* included, answer get_page as before.
C15_SetPageWritesOneLeaf ==
  [][(last'.op = "set_page" /\ last'.ret) =>
       LET pte == pml4e_walk(Post, last'.root, last'.va, FALSE).pte IN
       /\ pte # NoPte
       /\ Deref(Post, pte) = [addr |-> vtop(last'.kpage),
                              fl |-> {"P", "U"} \cup (IF last'.flag THEN {"W"} ELSE {})]
       /\ \A f \in DOMAIN mem, i \in Index :
            (mem'[f][i] # mem[f][i] /\ Slot(ptov(f), i) # pte) =>
              /\ ~Present(mem[f][i])
              /\ <<f, i>> \in PathSlots(Post, last'.root, last'.va)
       /\ \A a \in UserPageSet \ {last'.va} :
            pml4_get_page(Post, last'.root, a) = pml4_get_page(Cur, last'.root, a)]_vars

C15_Witness ==
  /\ last.op = "set_page" /\ last.ret /\ ~last.flag
  /\ LeafEntry(last.root, last.va) = [addr |-> vtop(last.kpage), fl |-> {"P", "U"}]
  /\ \E a \in UPages :
       /\ a # last.va /\ Mapped(last.root, a)
       /\ pml4e_walk(Cur, last.root, a, FALSE).pte.tbl
            = pml4e_walk(Cur, last.root, last.va, FALSE).pte.tbl

\* interior nodes missing on the path from root to the leaf entry of a
Missing(root, a) ==
  LET e4 == Load(Cur, root, PML4(a)) IN
  IF ~Present(e4) THEN 3
  ELSE LET e3 == Load(Cur, ptov(PTE_ADDR(e4)), PDPE(a)) IN
       IF ~Present(e3) THEN 2
       ELSE IF ~Present(Load(Cur, ptov(PTE_ADDR(e3)), PDX(a))) THEN 1 ELSE 0

\* C16: set_page fails exactly when the allocator refused one of the
\* interior nodes missing on the path; when it refused none the call
\* succeeds having allocated just the missing nodes, none at all when the
\* three levels exist; a refusal ends the call with the failure value,
\* short of the nodes it needed.
C16_FailsOnlyOnRefusal ==
  [][last'.op = "set_page" =>
       /\ last'.ret = ~last'.refused
       /\ last'.ret => /\ Len(last'.got) = Missing(last'.root, last'.va)
                       /\ last'.freed = <<>>
       /\ Missing(last'.root, last'.va) = 0 => (last'.ret /\ last'.got = <<>>)
       /\ ~last'.ret => /\ Len(last'.got) < Missing(last'.root, last'.va)
                        /\ nops' = nops + 1]_vars

C16_Witness ==
  /\ last.op = "set_page" /\ last.ret
  /\ last.got = <<>> /\ ~last.refused
  /\ Missing(last.root, last.va) = 0

\* C17: set_page with a misaligned upage or kpage, a upage outside the
\* user range or the template as root, get_page and clear_page with an
\* address outside the user range, and destroy of the template end in a
\* panic; a call that panics has changed no entry, allocated and freed no
\* frame and invalidated nothing, and no operation runs after it.
ContractBroken(l) ==
  \/ /\ l.op = "set_page"
     /\ pg_ofs(l.va) # 0 \/ l.kofs # 0 \/ ~is_user_vaddr(l.va) \/ l.root = base_pml4
  \/ l.op \in {"get_page", "clear_page"} /\ ~is_user_vaddr(l.va)
  \/ l.op = "destroy" /\ l.root = base_pml4

C17_ViolationsHaltUnchanged ==
  /\ [][ContractBroken(last') => last'.panic]_vars
  /\ [][last'.panic =>
          /\ mem' = mem /\ used' = used /\ roots' = roots
          /\ cr3' = cr3 /\ owner' = owner
          /\ last'.got = <<>> /\ last'.freed = <<>> /\ last'.invl = <<>>]_vars
  /\ [][~last.panic]_vars

C17_Witness ==
  /\ last.panic /\ last.op = "set_page"
  /\ last.kofs = 1 /\ pg_ofs(last.va) = 0 /\ is_user_vaddr(last.va)
  /\ last.root \in roots
  /\ ~HasSlot(last.root, last.va)
  /\ \E a \in UPages : Mapped(last.root, a)

\* C18: right after activate(r) the translation-root register holds r, or
\* the template when r is NULL; the register always holds one root, the
\* template or a live root (callers destroy a root only when another is
\* active); and no operation but activate changes the register.
C18_OnlyActivateSwitches ==
  /\ [](last.op = "activate" =>
          rcr3 = vtop(IF last.root # NULL THEN last.root ELSE base_pml4))
  /\ [](Cardinality({r \in roots \cup {base_pml4} : rcr3 = vtop(r)}) = 1)
  /\ [][last'.op # "activate" => cr3' = cr3]_vars

C18_Witness ==
  /\ last.op = "activate" /\ last.root \in roots
  /\ rcr3 = vtop(last.root) /\ rcr3 # vtop(base_pml4)
  /\ \E a \in UPages : Mapped(last.root, a)

\* C20: a walk with create = true, successful or not, leaves every leaf
\* entry Present or not as it was and with the value it had, allocates at
\* most three frames, changes no entry that was Present, and writes only
\* interior entries on the path of its address: each such write installs
\* a frame the walk allocated, zero-filled, as Present, Writable and User.
\* A failed walk leaves every entry and the allocated frames as they were.
C20_WalkCreatesInteriorOnly ==
  [][(last'.op = "walk" /\ last'.flag) =>
       /\ \A a \in UserPageSet :
            /\ pml4_get_page(Post, last'.root, a) = pml4_get_page(Cur, last'.root, a)
            /\ Mapped(last'.root, a) =>
                 Deref(Post, pml4e_walk(Post, last'.root, a, FALSE).pte)
                   = LeafEntry(last'.root, a)
       /\ Len(last'.got) <= 3
       /\ \A f \in DOMAIN mem, i \in Index :
            mem'[f][i] # mem[f][i] =>
              /\ ~Present(mem[f][i])
              /\ <<f, i>> \in PathSlots(Post, last'.root, last'.va)
              /\ mem'[f][i].fl = {"P", "W", "U"}
              /\ PTE_ADDR(mem'[f][i]) \in Range(last'.got)
       /\ last'.ret =>
            /\ last'.freed = <<>>
            /\ Len(last'.got) = Missing(last'.root, last'.va)
            /\ Range(last'.got) =
                 {PTE_ADDR(mem'[x[1]][x[2]]) :
                    x \in {y \in PathSlots(Post, last'.root, last'.va) :
                             ~Present(mem[y[1]][y[2]])}}
       /\ ~last'.ret => (mem' = mem /\ used' = used)]_vars

C20_Witness ==
  /\ last.op = "walk" /\ last.flag /\ last.ret
  /\ Len(last.got) = 2
  /\ ~Mapped(last.root, last.va)
  /\ \E a \in UPages : Mapped(last.root, a)

\* what a root maps: for every user page whether the walk finds a leaf
\* entry, and the entry
View(s, root) ==
  [a \in UserPageSet |->
     LET r == pml4e_walk(s, root, a, FALSE) IN
     IF r.pte = NoPte THEN [slot |-> FALSE, e |-> ZeroEntry]
                      ELSE [slot |-> TRUE, e |-> Deref(r.s, r.pte)]]

\* one operation of a program run as a whole on machine s
RunOp(s, root, o) ==
  CASE o.op = "set_page" ->
         LET r == pml4_set_page([s EXCEPT !.g = 3], root, o.va, o.kpage, o.flag) IN
         [s |-> r.s, ret |-> Result(r.ret, NULL)]
    [] o.op = "get_page" ->
         LET r == pml4_get_page(s, root, o.va) IN
         [s |-> s, ret |-> Result(r # NoPage, r.page)]
    [] o.op = "clear_page" ->
         [s |-> pml4_clear_page(s, root, o.va),
          ret |-> Result(pml4_get_page(s, root, o.va) # NoPage, NULL)]
    [] o.op = "set_dirty" ->
         [s |-> pml4_set_dirty(s, root, o.va, o.flag),
          ret |-> Result(pml4e_walk(s, root, o.va, FALSE).pte # NoPte, NULL)]
    [] o.op = "set_accessed" ->
         [s |-> pml4_set_accessed(s, root, o.va, o.flag),
          ret |-> Result(pml4e_walk(s, root, o.va, FALSE).pte # NoPte, NULL)]

\* a program run as a whole from its i-th operation; a set_page outside
\* granted is refused its frames and fails
RECURSIVE RunFrom(_, _, _, _, _)
RunFrom(s, root, prog, granted, i) ==
  IF i > Len(prog)
    THEN [s |-> s, rets |-> <<>>]
    ELSE LET o == prog[i]
             r == IF o.op = "set_page" /\ i \notin granted
                    THEN [s |-> s, ret |-> Result(FALSE, NULL)]
                    ELSE RunOp(s, root, o)
             rest == RunFrom(r.s, root, prog, granted, i + 1)
         IN  [s |-> rest.s, rets |-> <<r.ret>> \o rest.rets]

\* the machine the contexts started on: the kernel holds part of the pool
AtBoot == [ConcBoot EXCEPT !.used = @ \cup {f \in KPool : owner[f] = base_pml4}]

\* the set_page calls of context c that returned success
Granted(c) ==
  {i \in DOMAIN ctx[c].rets : ctx[c].prog[i].op = "set_page" /\ ctx[c].rets[i].ok}

\* the two programs run one after the other, first's first
SeqBoth(first) ==
  LET second == CHOOSE c \in Contexts : c # first
      a == RunFrom(AtBoot, RootOf(first), ctx[first].prog, DOMAIN ctx[first].prog, 1)
  IN  RunFrom(a.s, RootOf(second), ctx[second].prog, DOMAIN ctx[second].prog, 1).s

AllDone == \A c \in Contexts : ctx[c].pc = "done"

\* between two operations
Quiescent(x) == x.pc = "done" \/ (x.pc = "test" /\ x.lvl = 4)

\* a step of another context leaves every answer of c's root as it was
OthersLeaveAlone ==
  \A c \in Contexts :
    (ctx'[c] = ctx[c] /\ Quiescent(ctx[c])) =>
      \A a \in UserPageSet :
        /\ pml4_get_page(Post, RootOf(c), a) = pml4_get_page(Cur, RootOf(c), a)
        /\ pml4_is_dirty(Post, RootOf(c), a) = pml4_is_dirty(Cur, RootOf(c), a)
        /\ pml4_is_accessed(Post, RootOf(c), a) = pml4_is_accessed(Cur, RootOf(c), a)

\* C19 as written: when both contexts have run their programs, the two
\* roots map what they map after the programs are run one after the other
\* in one of the two orders; and no step of one context changes an answer
\* of get_page, is_dirty or is_accessed on the other context's root.
C19_EqualsSequentialRun ==
  /\ [](AllDone =>
          \E first \in Contexts :
            \A c \in Contexts : View(Cur, RootOf(c)) = View(SeqBoth(first), RootOf(c)))
  /\ [][OthersLeaveAlone]_vars

\* C19 amended: a set_page fails only when the allocator refused it a
\* frame; when both contexts have run their programs, each root maps what
\* it maps after its own program is run alone as a whole with the same
\* set_page calls failing, and every operation has returned what it
\* returns in that run; no step of one context changes an answer of
\* get_page, is_dirty or is_accessed on the other context's root.
C19_EqualsOwnRun ==
  /\ [](\A c \in Contexts :
          (\E i \in DOMAIN ctx[c].rets :
             ctx[c].prog[i].op = "set_page" /\ ~ctx[c].rets[i].ok) => ctx[c].refused)
  /\ [](AllDone =>
          \A c \in Contexts :
            LET r == RunFrom(AtBoot, RootOf(c), ctx[c].prog, Granted(c), 1) IN
            /\ View(Cur, RootOf(c)) = View(r.s, RootOf(c))
            /\ ctx[c].rets = r.rets)
  /\ [][OthersLeaveAlone]_vars

C19_Witness ==
  /\ AllDone
  /\ \A c \in Contexts : ~ctx[c].refused /\ Granted(c) # {}
  /\ ctx[1].prog # ctx[2].prog
  /\ LET pdpt1 == PTE_ADDR(Load(Cur, RootOf(1), 0))
         pdpt2 == PTE_ADDR(Load(Cur, RootOf(2), 0))
     IN  pdpt1 < pdpt2 /\ pdpt2 < PTE_ADDR(mem[pdpt1][0])

\* C21: get_page, clear_page, is_dirty, set_dirty, is_accessed,
\* set_accessed and for_each allocate and free no frame, and the only
\* entry any of them changes is the leaf entry of the address it was
\* called with; get_page, is_dirty, is_accessed and for_each change no
\* entry at all.
C21_ReadersCreateNothing ==
  [][last'.op \in {"get_page", "clear_page", "is_dirty", "set_dirty", "is_accessed",
                    "set_accessed", "for_each"} =>
       /\ last'.got = <<>> /\ last'.freed = <<>> /\ ~last'.refused
       /\ used' = used /\ owner' = owner
       /\ LET pte == pml4e_walk(Cur, last'.root, last'.va, FALSE).pte IN
          \A f \in DOMAIN mem, i \in Index :
            mem'[f][i] # mem[f][i] => (pte # NoPte /\ Slot(ptov(f), i) = pte)
       /\ last'.op \in {"get_page", "is_dirty", "is_accessed", "for_each"} => mem' = mem]_vars

C21_Witness ==
  /\ last.op = "set_accessed" /\ last.flag
  /\ Mapped(last.root, last.va)
  /\ LeafEntry(last.root, last.va).fl = {"P", "U", "A"}
  /\ Missing(last.root, last.va) = 0

\* C22: set_dirty(root, a, false) and set_accessed(root, a, false) change
\* only the D (resp. A) bit of the leaf entry of a: every other bit,
\* frame-address bits from 32 up included, keeps its value, so get_page
\* names the same frame before and after.
C22_ClearKeepsOtherBits ==
  [][/\ last'.op \in {"set_dirty", "set_accessed"} /\ ~last'.flag
     /\ pml4e_walk(Cur, last'.root, last'.va, FALSE).pte # NoPte
     => LET pte == pml4e_walk(Cur, last'.root, last'.va, FALSE).pte
            bit == IF last'.op = "set_dirty" THEN "D" ELSE "A"
            e   == Deref(Cur, pte)
        IN  /\ Deref(Post, pte) = [e EXCEPT !.fl = @ \ {bit}]
            /\ pml4_get_page(Post, last'.root, last'.va) = pml4_get_page(Cur, last'.root, last'.va)]_vars

\* the frames below a set of tables: those named by their Present entries
Below(tables) ==
  {mem[f][i].addr : <<f, i>> \in {x \in (tables \cap DOMAIN mem) \X Index : Present(mem[x[1]][x[2]])}}

\* the tables of the private region of root: what its entry 0 leads to
PrivateTables(root) ==
  LET pdpe == IF Present(mem[vtop(root)][0]) THEN {mem[vtop(root)][0].addr} ELSE {}
      pdp  == Below(pdpe)
      pt   == Below(pdp)
  IN  [pdpe |-> pdpe, pdp |-> pdp, pt |-> pt]

\* C24: destroy frees, besides the tables of the private region and the
\* root, exactly the frames named by the leaf entries that are Present when
\* it runs: a frame whose mapping was cleared and not made again is not
\* freed and stays allocated.
C24_DestroyFreesPresentLeaves ==
  [][last'.op = "destroy" =>
       LET t      == PrivateTables(last'.root)
           tables == {vtop(last'.root)} \cup t.pdpe \cup t.pdp \cup t.pt
           leaves == Below(t.pt)
       IN  /\ Range(last'.freed) = tables \cup leaves
           /\ \A f \in used \ (tables \cup leaves) : f \in used'
           /\ \A f \in leaves : f \notin used']_vars

C24_Witness ==
  /\ last.op = "destroy"
  /\ Len(last.freed) = 4
  /\ Range(last.freed) \cap UPool = {}
  /\ UPool \subseteq used

\* C25: right after a successful set_page(root, a, ...) is_dirty(root, a)
\* and is_accessed(root, a) are both false, whatever the entry held before
\* the call (a set Dirty or Accessed bit, a cleared mapping, another
\* mapping): the install replaces the whole entry.
C25_InstallResetsBits ==
  [][last'.op = "set_page" /\ last'.ret =>
       /\ ~pml4_is_dirty(Post, last'.root, last'.va)
       /\ ~pml4_is_accessed(Post, last'.root, last'.va)
       /\ Deref(Post, pml4e_walk(Post, last'.root, last'.va, FALSE).pte) =
            [addr |-> vtop(last'.kpage),
             fl |-> {"P", "U"} \cup (IF last'.flag THEN {"W"} ELSE {})]]_vars

\* an install over a leaf entry that earlier calls had already written
C25_Witness ==
  /\ last.op = "set_page" /\ last.ret /\ last.got = <<>>
  /\ nops = MaxOps
  /\ LeafEntry(last.root, last.va).fl = {"P", "U"}
  /\ \A r \in roots, a \in UPages : Mapped(r, a) => (r = last.root /\ a = last.va)

(* ------------------------- translation cache --------------------------- *)
(* The processor may cache the translation of any page it touches through  *)
(* the active root; invlpg drops the cached translation of one page and    *)
(* loading cr3 drops them all.  The callers keep to the contracts: a page  *)
(* is installed only where none is Present, and the active root is not     *)
(* destroyed.                                                              *)

\* an operation run as a whole, the cache following its invalidations
Tick ==
  /\ nops < MaxOps
  /\ nops' = nops + 1
  /\ ctx' = ctx
  /\ curr' = curr

\* what invlpg and lcr3 issued by the operation leave in the cache
TlbSync ==
  tlb' = IF last'.op = "activate"
           THEN {}
           ELSE {t \in tlb : t.va \notin {PageOf(va) : va \in Range(last'.invl)}}

\* the processor touches a page through the active root: it caches the
\* translation and marks the entry Accessed, and Dirty on a write
TlbFill ==
  \E a \in UPages, write \in BOOLEAN :
    LET pte == pml4e_walk(Cur, ptov(cr3), a, FALSE).pte IN
    /\ pte # NoPte
    /\ Present(Deref(Cur, pte))
    /\ write => "W" \in Deref(Cur, pte).fl
    /\ mem' = Store(Cur, pte.tbl, pte.idx,
                    [Deref(Cur, pte) EXCEPT !.fl = @ \cup {"A"} \cup (IF write THEN {"D"} ELSE {})]).m
    /\ tlb' = tlb \cup {[va |-> a, frame |-> Deref(Cur, pte).addr]}
    /\ UNCHANGED <<used, roots, cr3, owner, last, nops, ctx, curr>>

\* set_page by a caller that installs only where no page is Present
SetFreshPage == SetPage /\ ~Mapped(last'.root, last'.va)

NextTlb ==
  \/ Tick /\ UserPageGet /\ TlbSync
  \/ Tick /\ Create /\ TlbSync
  \/ Tick /\ Destroy /\ TlbSync
  \/ Tick /\ Activate /\ TlbSync
  \/ Tick /\ SetFreshPage /\ TlbSync
  \/ Tick /\ ClearPage /\ TlbSync
  \/ Tick /\ SetDirty /\ TlbSync
  \/ Tick /\ SetAccessed /\ TlbSync
  \/ Tick /\ GetPage /\ TlbSync
  \/ Tick /\ IsDirty /\ TlbSync
  \/ Tick /\ IsAccessed /\ TlbSync
  \/ TlbFill

SpecTlb == Init /\ [][NextTlb]_vars

\* every cached translation is that of a Present leaf entry of the active root
Coherent ==
  \A t \in tlb : Mapped(ptov(cr3), t.va) /\ LeafEntry(ptov(cr3), t.va).addr = t.frame

\* C23: with a cache that may hold the translation of any page touched
\* through the active root and is flushed by pml4_activate, and callers
\* that install only where no page is Present and never destroy the active
\* root, every cached translation is at all times that of a Present leaf
\* entry of the active root naming the same frame, and an operation that
\* changes a leaf entry of the active root leaves no cached translation of
\* that page behind.
C23_TlbCoherent ==
  /\ []Coherent
  /\ [][nops' # nops /\ cr3' = cr3 =>
          \A a \in UPages :
            LET pte == pml4e_walk(Cur, ptov(cr3), a, FALSE).pte IN
            (pte # NoPte /\ Deref(Post, pte) # Deref(Cur, pte)) =>
              \A t \in tlb' : t.va # a]_vars

\* the active root's page was touched, then unmapped: the entry still
\* carries the Accessed bit the processor set and the cache is empty
C23_Witness ==
  /\ last.op = "clear_page" /\ last.ret
  /\ cr3 = vtop(last.root)
  /\ last.invl = <<last.va>>
  /\ "A" \in LeafEntry(last.root, last.va).fl
  /\ tlb = {}

(* ---------------------------- descriptors ------------------------------ *)
(* sys_open and sys_close work on the descriptor table of the running      *)
(* thread.  A path argument is a user-supplied pointer; a descriptor       *)
(* argument is the integer the user left in the register.                  *)

NullPath == [null |-> TRUE, va |-> NoVa]

\* the pointers a user may pass: NULL, three user addresses, a kernel address
PathArgs ==
  {NullPath} \cup {[null |-> FALSE, va |-> v] : v \in UPages \cup {KernelVa}}

\* user memory: two addresses hold a name, the third is not mapped
NameAt(va) ==
  CASE va = UPage(0, 0, 0) -> "a"
    [] va = UPage(0, 0, 1) -> "b"
    [] OTHER -> ""

\* the files that exist
Files == {"a"}

\* the byte read at the address, -1 when the read faults
get_user(va) == IF NameAt(va) = "" THEN -1 ELSE 97

memory_check(va) == get_user(va)

\* the file object of the name, NULL when no such file exists; id names
\* the object a successful call creates
filesys_open(name, id) == IF name \in Files THEN id ELSE NULL

\* thread_exit () after the exit code is stored: the thread ends
sys_exit(t, status) == [t EXCEPT !.exit_code = status, !.status = "dying"]

\* what a call leaves: the thread, the value returned, and whether the
\* call returned at all
Returns(t, ret) == [t |-> t, ret |-> ret, returned |-> TRUE]

Leaves(t) == [t |-> t, ret |-> 0, returned |-> FALSE]

FirstFd == 3

\* the descriptors a scan from first finds not in use
Unused(t, first) == {i \in first .. (MAX_FILEDES_ENTRY - 1) : ~t.filedes_table[i].use}

\* an open that hands out the standard descriptors too
sys_open_from0(t, path, id) ==
  IF path.null THEN Returns(t, -1)
  ELSE IF ~is_user_vaddr(path.va) THEN Returns(t, -1)
  ELSE IF memory_check(path.va) = -1 THEN Leaves(sys_exit(t, -1))
  ELSE LET file_p == filesys_open(NameAt(path.va), id) IN
       IF file_p = NULL THEN Returns(t, -1)
       ELSE IF Unused(t, 0) = {} THEN Returns(t, -1)
       ELSE LET i == Min(Unused(t, 0)) IN
            Returns([t EXCEPT !.filedes_table[i] = [use |-> TRUE, file_p |-> file_p]], i)

sys_open(t, path, id) ==
  IF path.null THEN Returns(t, -1)
  ELSE IF ~is_user_vaddr(path.va) THEN Returns(t, -1)
  ELSE IF memory_check(path.va) = -1 THEN Leaves(sys_exit(t, -1))
  ELSE LET file_p == filesys_open(NameAt(path.va), id) IN
       IF file_p = NULL THEN Returns(t, -1)
       ELSE IF Unused(t, FirstFd) = {} THEN Returns(t, -1)
       ELSE LET i == Min(Unused(t, FirstFd)) IN
            Returns([t EXCEPT !.filedes_table[i] = [use |-> TRUE, file_p |-> file_p]], i)

\* what filedes_table[fd] is for an fd outside the table: memory that is
\* not the table's, holding anything, or no memory at all
Stray == {"free", "used", "fault"}

\* sys_close on an fd the table has; stray is what the memory beside the
\* table holds when fd is outside it
sys_close(t, fd, stray) ==
  IF fd \in DOMAIN t.filedes_table
    THEN IF ~t.filedes_table[fd].use
           THEN Returns(t, -1)
           ELSE Returns([t EXCEPT !.filedes_table[fd] = FreeEntry], 0)
    ELSE CASE stray = "free"  -> Returns(t, -1)
           [] stray = "used"  -> Returns([t EXCEPT !.clobbered = TRUE], 0)
           [] stray = "fault" -> Leaves([t EXCEPT !.status = "dying"])

\* the integers a user may pass as descriptor
FdArgs == -1 .. MAX_FILEDES_ENTRY

Sys(op, arg, r) == [op |-> op, arg |-> arg, ret |-> r.ret, returned |-> r.returned]

\* a system call of the running thread
Syscall ==
  /\ nops < MaxOps
  /\ nops' = nops + 1
  /\ curr.status = "running"
  /\ UNCHANGED <<mem, used, roots, cr3, owner, ctx, tlb>>

SysOpen ==
  \E path \in PathArgs :
    LET r == sys_open(curr, path, nops + 1) IN
    /\ curr' = r.t
    /\ last' = Sys("sys_open", path, r)

SysClose ==
  \E fd \in FdArgs, stray \in Stray :
    LET r == sys_close(curr, fd, stray) IN
    /\ curr' = r.t
    /\ last' = Sys("sys_close", fd, r)

NextFd ==
  \/ Syscall /\ SysOpen
  \/ Syscall /\ SysClose

SpecFd == Init /\ [][NextFd]_vars

\* the path is a readable user pointer to the name of a file that exists
NamesFile(path) ==
  /\ ~path.null /\ is_user_vaddr(path.va)
  /\ memory_check(path.va) # -1
  /\ NameAt(path.va) \in Files

\* the path is NULL, a kernel address, or a readable name of no file
NamesNothing(path) ==
  \/ path.null
  \/ ~is_user_vaddr(path.va)
  \/ memory_check(path.va) # -1 /\ NameAt(path.va) \notin Files

\* C26: sys_open on the name of an existing file returns the smallest
\* descriptor i with 3 <= i < MAX_FILEDES_ENTRY that is not in use and marks
\* it, and only it, in use; it never returns 0, 1, 2 or a descriptor that
\* was in use; it returns -1 and leaves the table as it was when the path
\* is NULL, a kernel address or the name of no file, or when the file
\* exists and no descriptor is free.
C26_OpenTakesSmallestFree ==
  [][last'.op = "sys_open" =>
       LET path  == last'.arg
           table == curr.filedes_table
           free  == {i \in 3 .. (MAX_FILEDES_ENTRY - 1) : ~table[i].use}
       IN  /\ (NamesFile(path) /\ free # {}) =>
                /\ last'.returned /\ last'.ret \in free
                /\ \A i \in free : last'.ret <= i
                /\ curr'.filedes_table[last'.ret].use
                /\ curr'.filedes_table[last'.ret].file_p # NULL
                /\ \A i \in DOMAIN table : i # last'.ret => curr'.filedes_table[i] = table[i]
           /\ last'.returned => (last'.ret = -1 \/ last'.ret \in free)
           /\ (NamesNothing(path) \/ (NamesFile(path) /\ free = {})) =>
                /\ last'.returned /\ last'.ret = -1
                /\ curr' = curr]_vars

\* the second open of a run takes descriptor 4 while 3 is still in use
C26_Witness ==
  /\ last.op = "sys_open" /\ last.returned /\ last.ret = 4
  /\ curr.filedes_table[3].use /\ curr.filedes_table[4].use
  /\ curr.filedes_table[3].file_p # curr.filedes_table[4].file_p

\* C27: sys_close(fd) returns -1 and leaves the table unchanged when fd is
\* not in use; when fd is in use it returns 0 and frees exactly that
\* descriptor, clearing its file pointer and leaving every other
\* descriptor as it was.
C27_CloseFreesOne ==
  [][last'.op = "sys_close" =>
       LET fd    == last'.arg
           table == curr.filedes_table
       IN  IF fd \in DOMAIN table /\ table[fd].use
             THEN /\ last'.returned /\ last'.ret = 0
                  /\ curr' = [curr EXCEPT !.filedes_table[fd] = FreeEntry]
             ELSE /\ last'.returned /\ last'.ret = -1
                  /\ curr' = curr]_vars

====
